---- MODULE Spec2Model ----
(***************************************************************************)
(* A model of korealover/auto_stock_trading: the signal rules and the      *)
(* strategy cycle of strategy.py, the request executor of kis_open_api.py  *)
(* and the gateway operations of api.py / kis_open_api.py.                 *)
(*                                                                         *)
(* Numbers.  Python floats are modelled by exact rationals <<n, d>> with   *)
(* d > 0; Python's None is the empty tuple.  The thresholds of the rules   *)
(* (0.05, 0.1, 1.5, -3.0, 30, 70, 80) are compared with quotients of       *)
(* integers of market size, which differ from a threshold either by        *)
(* nothing or by far more than one rounding step, so that the exact        *)
(* comparison is the comparison the floats make.                           *)
(***************************************************************************)
EXTENDS Integers, Sequences, FiniteSets, TLC

VARIABLES signal, request, order, calc,
          pc, clock, now, config, broker, portfolio, local, todo, idx, cur_analysis,
          buy_quantity, order_res, calls, posts, submitted, reviews, lines,
          history, bal_res, main

(* the state of the strategy cycle *)
cycleVars == <<pc, clock, now, config, broker, portfolio, local, todo, idx,
               cur_analysis, buy_quantity, order_res, calls, posts, submitted,
               reviews, lines, history, bal_res, main>>

vars == <<signal, request, order, calc, cycleVars>>

----------------------------------------------------------------------------
(* Python values *)

None == <<>>

R(n) == <<n, 1>>

Lt(a, b) == a[1] * b[2] < b[1] * a[2]

Gt(a, b) == Lt(b, a)

Le(a, b) == ~Lt(b, a)

Ge(a, b) == ~Lt(a, b)

(* bool(x) of a number or None: None and every zero are false *)
Truthy(x) == x /= None /\ x[1] /= 0

(* all(xs) over a list of numbers and Nones *)
all(xs) == \A i \in DOMAIN xs : Truthy(xs[i])

(* sum(conditions) over a list of bools *)
sum(conditions) == Cardinality({i \in DOMAIN conditions : conditions[i]})

(* any(conditions) *)
any(conditions) == \E i \in DOMAIN conditions : conditions[i]

Return(v) == [exc |-> "", value |-> v]

Raise(e) == [exc |-> e, value |-> FALSE]

(* A Python str of digits is the sequence of its characters. *)
DigitChars == <<"0", "1", "2", "3", "4", "5", "6", "7", "8", "9">>

RECURSIVE str(_)
str(n) ==
    IF n < 0 THEN <<"-">> \o str(-n)
    ELSE IF n < 10 THEN <<DigitChars[n + 1]>>
    ELSE str(n \div 10) \o <<DigitChars[(n % 10) + 1]>>

DigitValue(c) == (CHOOSE i \in DOMAIN DigitChars : DigitChars[i] = c) - 1

RECURSIVE int(_)
int(s) ==
    IF s[1] = "-" THEN -int(Tail(s))
    ELSE IF Len(s) = 1 THEN DigitValue(s[1])
    ELSE 10 * int(SubSeq(s, 1, Len(s) - 1)) + DigitValue(s[Len(s)])

(* the strategy cycle not running *)
CycleOff ==
    /\ pc = "off" /\ clock = {} /\ now = None /\ config = None
    /\ broker = None
    /\ portfolio = None /\ local = None /\ todo = <<>> /\ idx = 0
    /\ cur_analysis = None /\ buy_quantity = 0 /\ order_res = None
    /\ calls = {} /\ posts = 0 /\ submitted = <<>> /\ reviews = {}
    /\ lines = <<>>
    /\ history = <<>>
    /\ bal_res = None
    /\ main = None

----------------------------------------------------------------------------
(* AutoTradingStrategy.__init__: the configuration defaults *)

stop_loss_ratio == <<5, 100>>

take_profit_ratio == <<10, 100>>

----------------------------------------------------------------------------
(* Signal rules *)

should_buy(analysis) ==
    IF analysis = None
       \/ ~all(<<analysis[1].ma5, analysis[1].ma20, analysis[1].rsi>>)
    THEN FALSE
    ELSE LET a == analysis[1]
             conditions == << Gt(a.ma5, a.ma20),
                              Gt(a.rsi, R(30)) /\ Lt(a.rsi, R(70)),
                              Gt(a.volume_ratio, <<3, 2>>),
                              Gt(a.change_rate, R(-3)) >>
         IN  sum(conditions) >= 3

should_sell(analysis, holding_info) ==
    IF analysis = None \/ holding_info = None
    THEN Return(FALSE)
    ELSE LET a == analysis[1]
             current_price == a.current_price
             buy_price == holding_info[1].buy_price
         IN  IF buy_price = 0
             THEN Raise("ZeroDivisionError")
             ELSE LET profit_rate == <<current_price - buy_price, buy_price>>
                      conditions ==
                        << Le(profit_rate, <<-stop_loss_ratio[1], stop_loss_ratio[2]>>),
                           Ge(profit_rate, take_profit_ratio),
                           Truthy(a.ma5) /\ Truthy(a.ma20) /\ Lt(a.ma5, a.ma20),
                           Truthy(a.rsi) /\ Gt(a.rsi, R(80)) >>
                  IN  Return(any(conditions))

----------------------------------------------------------------------------
(* Request executor: KISOpenAPI.make_request of kis_open_api.py.           *)
(* What one requests.get / requests.post can end in: a received response   *)
(* (any status: requests does not raise on a status), one of the transport *)
(* failures the executor names, or another error of the library.           *)

Responses == {"200 rt_cd=0", "200 rt_cd=1", "500"}

TransportFailures == {"ConnectTimeout", "ReadTimeout", "ConnectionError"}

OtherErrors == {"TooManyRedirects"}

Outcomes == Responses \cup TransportFailures \cup OtherErrors

DefaultMaxRetries == 3

upper(method) ==
    CASE method = "get" -> "GET"
      [] method = "post" -> "POST"
      [] OTHER -> method

(* a retry of whatever the request raises *)
Retryable_AnyError(outcome) == outcome \notin Responses

(* the except clauses that retry: (ConnectTimeout, ReadTimeout) and        *)
(* ConnectionError                                                         *)
Retryable(outcome) ==
    outcome \in {"ConnectTimeout", "ReadTimeout", "ConnectionError"}

(* a bound one short: the last allowed attempt is never made *)
ShouldRetry_OneShort(attempt, max_retries) == attempt < max_retries - 2

(* if attempt < max_retries - 1 *)
ShouldRetry(attempt, max_retries) == attempt < max_retries - 1

(* a product where the power is meant *)
Backoff_Product(attempt) == 2 * attempt

(* time.sleep(2 ** attempt) *)
Backoff(attempt) == 2 ^ attempt

(* One pass of the body of `for attempt in range(max_retries)`, with the   *)
(* outcome of the request it sends; past the end of the range, the raise   *)
(* that follows the loop.                                                  *)
make_request_step(r, outcome) ==
    IF r.attempt >= r.max_retries
    THEN [r EXCEPT !.pc = "raised", !.result = "Exception"]
    ELSE IF upper(r.method) \notin {"GET", "POST"}
    THEN [r EXCEPT !.pc = "raised", !.result = "ValueError"]
    ELSE LET sent == [r EXCEPT !.attempts = r.attempts + 1, !.log = Append(r.log, outcome)]
         IN  IF outcome \in Responses
             THEN [sent EXCEPT !.pc = "returned", !.result = outcome]
             ELSE IF Retryable(outcome)
             THEN IF ShouldRetry(r.attempt, r.max_retries)
                  THEN [sent EXCEPT !.sleeps = Append(r.sleeps, Backoff(r.attempt)),
                                    !.attempt = r.attempt + 1]
                  ELSE [sent EXCEPT !.pc = "raised", !.result = "Exception"]
             ELSE [sent EXCEPT !.pc = "raised", !.result = outcome]

----------------------------------------------------------------------------
(* The gateway operations of the two KISOpenAPI modules: api.py, which     *)
(* main.py imports, and kis_open_api.py.                                   *)

Modules == {"api", "kis_open_api"}

GatewayOps == {"get_current_price", "get_chart_data", "get_balance",
               "buy_order", "sell_order"}

(* the only operation that calls self.make_request *)
UsesExecutor(module, op) ==
    module = "kis_open_api" /\ op = "get_current_price"

HttpMethod(op) == IF op \in {"buy_order", "sell_order"} THEN "POST" ELSE "GET"

(* a bare requests.get / requests.post: one request, no timeout, and what  *)
(* it raises leaves the call as it is                                      *)
direct_request(r, outcome) ==
    LET sent == [r EXCEPT !.attempts = r.attempts + 1, !.log = Append(r.log, outcome)]
    IN  IF outcome \in Responses
        THEN [sent EXCEPT !.pc = "returned", !.result = outcome]
        ELSE [sent EXCEPT !.pc = "raised", !.result = outcome]

(* get_current_price from the end of its request to its return: a Quote   *)
(* on rt_cd "0", else None; what the request raised is caught by the       *)
(* try/except of kis_open_api.py, and by nothing in api.py                 *)
get_current_price(r) ==
    IF r.pc = "raised"
    THEN IF r.module = "kis_open_api" THEN Return(None) ELSE Raise(r.result)
    ELSE IF r.result = "200 rt_cd=0" THEN Return(<<"Quote">>)
    ELSE Return(None)

(* the call with what the operation returns, once its request has ended *)
gateway_return(r) ==
    IF r.op = "get_current_price" /\ r.pc \in {"returned", "raised"}
    THEN [r EXCEPT !.ret = <<get_current_price(r)>>]
    ELSE r

MaxRetries == 3

Methods == {"GET", "POST", "get", "PUT"}

RequestIdle ==
    [pc |-> "idle", module |-> "", op |-> "", method |-> "", max_retries |-> 0,
     attempt |-> 0, attempts |-> 0, sleeps |-> <<>>, log |-> <<>>, result |-> "",
     ret |-> None]

CallMakeRequest ==
    /\ request.pc = "idle"
    /\ \E method \in Methods, max_retries \in 0..MaxRetries :
         request' = [RequestIdle EXCEPT !.pc = "executor",
                                        !.module = "kis_open_api",
                                        !.op = "make_request",
                                        !.method = method,
                                        !.max_retries = max_retries]
    /\ UNCHANGED <<signal, order, calc, cycleVars>>

CallGateway ==
    /\ request.pc = "idle"
    /\ \E module \in Modules, op \in GatewayOps :
         request' = [RequestIdle EXCEPT
                        !.pc = IF UsesExecutor(module, op)
                               THEN "executor" ELSE "direct",
                        !.module = module, !.op = op,
                        !.method = HttpMethod(op),
                        !.max_retries = DefaultMaxRetries]
    /\ UNCHANGED <<signal, order, calc, cycleVars>>

Attempt ==
    /\ request.pc = "executor"
    /\ \E outcome \in Outcomes :
         request' = gateway_return(make_request_step(request, outcome))
    /\ UNCHANGED <<signal, order, calc, cycleVars>>

DirectSend ==
    /\ request.pc = "direct"
    /\ \E outcome \in Outcomes :
         request' = gateway_return(direct_request(request, outcome))
    /\ UNCHANGED <<signal, order, calc, cycleVars>>

NextRequest == CallMakeRequest \/ CallGateway \/ Attempt \/ DirectSend

InitRequest ==
    /\ request = RequestIdle /\ signal = None /\ order = None /\ calc = None
    /\ CycleOff

SpecRequest == InitRequest /\ [][NextRequest]_vars

----------------------------------------------------------------------------
(* Claims on the request executor and the gateway *)

ViaExecutor(r) == r.op = "make_request" \/ UsesExecutor(r.module, r.op)

Supported(r) == upper(r.method) \in {"GET", "POST"}

Ended(r) == r.pc \in {"returned", "raised"}

(* C4: with max_retries = N >= 1 the attempts never exceed N; when every   *)
(* attempt ends in a transport failure the call ends raised, after exactly *)
(* N attempts; when attempt k is the first to receive a response the call  *)
(* ends returning that response after exactly k attempts.                  *)
C4_AttemptsBounded ==
    (ViaExecutor(request) /\ Supported(request) /\ request.max_retries >= 1) =>
        /\ request.attempts <= request.max_retries
        /\ request.attempts = Len(request.log)
        /\ ( /\ Ended(request)
             /\ \A i \in DOMAIN request.log : request.log[i] \in TransportFailures )
           => ( /\ request.pc = "raised"
                /\ request.attempts = request.max_retries )
        /\ \A k \in DOMAIN request.log :
             request.log[k] \in Responses =>
               /\ request.pc = "returned"
               /\ request.result = request.log[k]
               /\ request.attempts = k

(* a response on the 2nd of 3 allowed attempts, the 3rd not used *)
C4_Witness ==
    /\ request.op = "make_request"
    /\ request.max_retries = 3
    /\ request.log = <<"ReadTimeout", "200 rt_cd=0">>
    /\ request.pc = "returned"
    /\ request.attempts = 2

(* C5: an attempt is followed by another only when it failed with a        *)
(* connect timeout, a read timeout or a connection error; a response with  *)
(* a non-2xx status is returned after its attempt; any other error is      *)
(* raised at once, an unsupported method before any request is sent.       *)
C5_RetryOnlyTransport ==
    ViaExecutor(request) =>
        /\ \A i \in DOMAIN request.log :
             i < Len(request.log) => request.log[i] \in TransportFailures
        /\ \A i \in DOMAIN request.log :
             request.log[i] = "500" =>
               (request.pc = "returned" /\ request.result = "500")
        /\ \A i \in DOMAIN request.log :
             request.log[i] \in OtherErrors =>
               (request.pc = "raised" /\ request.result = request.log[i])
        /\ (~Supported(request) /\ request.max_retries >= 1) =>
             /\ request.attempts = 0
             /\ Ended(request) =>
                  (request.pc = "raised" /\ request.result = "ValueError")

(* a non-2xx response returned after the single attempt, two more allowed *)
C5_Witness ==
    /\ request.op = "make_request"
    /\ request.max_retries = 3
    /\ request.log = <<"500">>
    /\ request.pc = "returned"
    /\ request.result = "500"

(* C6: the wait that follows failed attempt i (0-indexed, i < N - 1) is    *)
(* 2^i seconds, and no wait follows the failure of the last allowed        *)
(* attempt.                                                                *)
C6_ExponentialBackoff ==
    (ViaExecutor(request) /\ Supported(request)) =>
        /\ \A j \in DOMAIN request.sleeps : request.sleeps[j] = 2 ^ (j - 1)
        /\ Len(request.sleeps) =
             Cardinality({ i \in DOMAIN request.log :
                             /\ request.log[i] \in TransportFailures
                             /\ i - 1 < request.max_retries - 1 })

(* three failures of three: waits of 1 and 2 seconds, none after the last *)
C6_Witness ==
    /\ request.op = "make_request"
    /\ request.max_retries = 3
    /\ request.pc = "raised"
    /\ Len(request.log) = 3
    /\ request.sleeps = <<1, 2>>

(* C7: a transport failure on an attempt of any of the gateway operations  *)
(* is retried, and is surfaced only after max_retries attempts.            *)
C7_GatewayRetries ==
    ( /\ request.op \in GatewayOps
      /\ request.pc = "raised"
      /\ request.result \in TransportFailures \cup {"Exception"} )
    => request.attempts = DefaultMaxRetries

----------------------------------------------------------------------------
(* Order submission: buy_order and sell_order (the same text in api.py and *)
(* kis_open_api.py).  Each builds the request body and sends it with one   *)
(* requests.post.                                                          *)

(* the limit branch left with the order_type argument *)
buy_order_KeepsOrderType(stock_code, quantity, price, order_type) ==
    [ tr_id |-> "TTTC0802U",
      data |-> [ PDNO |-> stock_code,
                 ORD_DVSN |-> IF price = 0 THEN "01" ELSE order_type,
                 ORD_QTY |-> str(quantity),
                 ORD_UNPR |-> IF price = 0 THEN <<"0">> ELSE str(price) ] ]

buy_order(stock_code, quantity, price, order_type) ==
    [ tr_id |-> "TTTC0802U",
      data |-> [ PDNO |-> stock_code,
                 ORD_DVSN |-> IF price = 0 THEN "01" ELSE "00",
                 ORD_QTY |-> str(quantity),
                 ORD_UNPR |-> IF price = 0 THEN <<"0">> ELSE str(price) ] ]

sell_order(stock_code, quantity, price, order_type) ==
    [ tr_id |-> "TTTC0801U",
      data |-> [ PDNO |-> stock_code,
                 ORD_DVSN |-> IF price = 0 THEN "01" ELSE "00",
                 ORD_QTY |-> str(quantity),
                 ORD_UNPR |-> IF price = 0 THEN <<"0">> ELSE str(price) ] ]

(* what buy_order / sell_order make of the outcome of their requests.post: *)
(* an OrderResult, or the error of the request, which they do not catch    *)
order_result(outcome) ==
    IF outcome \notin Responses THEN Raise(outcome)
    ELSE IF outcome = "200 rt_cd=0"
    THEN [exc |-> "", value |-> TRUE, message |-> "order accepted"]
    ELSE IF outcome = "200 rt_cd=1"
    THEN [exc |-> "", value |-> FALSE, message |-> "msg1"]
    ELSE [exc |-> "", value |-> FALSE, message |-> "order failed"]

Symbols == {"A", "B"}

MaxOrderQuantity == 11

MaxOrderPrice == 11

OrderTypes == {"00", "01", "03"}

OrderIdle ==
    [pc |-> "idle", side |-> "", args |-> None, sent |-> <<>>, result |-> None]

CallBuyOrder ==
    /\ order.pc = "idle"
    /\ \E stock_code \in Symbols, quantity \in 0..MaxOrderQuantity,
          price \in 0..MaxOrderPrice, order_type \in OrderTypes,
          outcome \in Outcomes :
         order' = [ pc |-> "done", side |-> "buy",
                    args |-> <<[stock_code |-> stock_code, quantity |-> quantity,
                                price |-> price, order_type |-> order_type]>>,
                    sent |-> <<buy_order(stock_code, quantity, price, order_type)>>,
                    result |-> <<order_result(outcome)>> ]
    /\ UNCHANGED <<signal, request, calc, cycleVars>>

CallSellOrder ==
    /\ order.pc = "idle"
    /\ \E stock_code \in Symbols, quantity \in 0..MaxOrderQuantity,
          price \in 0..MaxOrderPrice, order_type \in OrderTypes,
          outcome \in Outcomes :
         order' = [ pc |-> "done", side |-> "sell",
                    args |-> <<[stock_code |-> stock_code, quantity |-> quantity,
                                price |-> price, order_type |-> order_type]>>,
                    sent |-> <<sell_order(stock_code, quantity, price, order_type)>>,
                    result |-> <<order_result(outcome)>> ]
    /\ UNCHANGED <<signal, request, calc, cycleVars>>

NextOrder == CallBuyOrder \/ CallSellOrder

InitOrder ==
    /\ order = OrderIdle /\ signal = None /\ request = None /\ calc = None
    /\ CycleOff

SpecOrder == InitOrder /\ [][NextOrder]_vars

----------------------------------------------------------------------------
(* The signal rules applied to drawn Analysis and Holding values.           *)
(* analyze_stock builds ma5 and ma20 from broker closes (any integer the   *)
(* payload carries, 0 included) and rsi in [0, 100]: rsi is 0.0 when the   *)
(* window holds losses and no gain.                                        *)

MaxMA == 2

MaValues == {None} \cup {R(i) : i \in 0..MaxMA}

RsiValues == {None, R(0), R(30), R(50), R(70), R(80), R(81), R(100)}

VolumeRatioValues == {R(0), <<3, 2>>, R(2)}

ChangeRateValues == {R(-5), R(-3), <<-29, 10>>}

PriceValues == {18, 19, 20, 21, 22}

BuyPriceValues == {0, 20}

(* The Analysis values analyze_stock can build: 20 bars hold 15 and 5, so  *)
(* ma20 present implies rsi present implies ma5 present, and closes that   *)
(* are not negative give ma20 = 0 only with ma5 = 0 and no loss at all.    *)
Analyses ==
    { a \in [ current_price : PriceValues, change_rate : ChangeRateValues,
              ma5 : MaValues, ma20 : MaValues, rsi : RsiValues,
              volume_ratio : VolumeRatioValues ] :
        /\ a.ma20 /= None => a.rsi /= None
        /\ a.rsi /= None => a.ma5 /= None
        /\ a.ma20 = R(0) => (a.ma5 = R(0) /\ a.rsi = R(100)) }

Holdings == [ quantity : {1}, buy_price : BuyPriceValues ]

InitSignal ==
    /\ \E a \in Analyses, h \in {None} \cup {<<x>> : x \in Holdings} :
         signal = [pc |-> "input", analysis |-> <<a>>, holding_info |-> h,
                   result |-> Return(FALSE)]
    /\ request = None /\ order = None /\ calc = None
    /\ CycleOff

CallShouldBuy ==
    /\ signal.pc = "input"
    /\ signal' = [signal EXCEPT !.pc = "should_buy",
                                !.result = Return(should_buy(signal.analysis))]
    /\ UNCHANGED <<request, order, calc, cycleVars>>

CallShouldSell ==
    /\ signal.pc = "input"
    /\ signal' = [signal EXCEPT !.pc = "should_sell",
                                !.result = should_sell(signal.analysis,
                                                       signal.holding_info)]
    /\ UNCHANGED <<request, order, calc, cycleVars>>

NextSignal == CallShouldBuy \/ CallShouldSell

SpecSignal == InitSignal /\ [][NextSignal]_vars

----------------------------------------------------------------------------
(* Claims on the signal rules *)

Present(x) == x /= None

BuyConditions(a) ==
    << Gt(a.ma5, a.ma20),
       Gt(a.rsi, R(30)) /\ Lt(a.rsi, R(70)),
       Gt(a.volume_ratio, <<3, 2>>),
       Gt(a.change_rate, R(-3)) >>

(* C1: whenever ma5, ma20 and rsi are all present (0 included), should_buy *)
(* returns true iff at least 3 of the 4 conditions hold; when one of them  *)
(* is absent it returns false.                                             *)
C1_BuyIffQuorum ==
    signal.pc = "should_buy" =>
        LET a == signal.analysis[1]
        IN  signal.result.value =
              ( /\ Present(a.ma5) /\ Present(a.ma20) /\ Present(a.rsi)
                /\ sum(BuyConditions(a)) >= 3 )

SellConditions(a, h) ==
    LET profit_rate == <<a.current_price - h.buy_price, h.buy_price>>
    IN  << Le(profit_rate, <<-5, 100>>),
           Ge(profit_rate, <<10, 100>>),
           Present(a.ma5) /\ Present(a.ma20) /\ Lt(a.ma5, a.ma20),
           Present(a.rsi) /\ Gt(a.rsi, R(80)) >>

(* C2: for every Analysis and every Holding (with a buy price the profit   *)
(* rate is defined for), should_sell returns true iff at least one of the  *)
(* 4 conditions holds; without a Holding it returns false.                 *)
C2_SellIffAny ==
    signal.pc = "should_sell" =>
        IF signal.holding_info = None
        THEN signal.result = Return(FALSE)
        ELSE signal.holding_info[1].buy_price /= 0 =>
               signal.result =
                 Return(any(SellConditions(signal.analysis[1],
                                           signal.holding_info[1])))

----------------------------------------------------------------------------
(* The strategy cycle: AutoTradingStrategy.run_strategy under              *)
(* start_scheduler, against the gateway of api.py (the module main.py      *)
(* imports).  The cycle is suspended at its gateway calls, one action      *)
(* each.  Time is the local time of day in seconds.                        *)

market_open == 32400

market_close == 55800

(* a weekend that starts on Sunday *)
is_market_open_SundayOnly(t) ==
    IF t.weekday >= 6 THEN FALSE
    ELSE market_open <= t.time /\ t.time <= market_close

is_market_open(t) ==
    IF t.weekday >= 5 THEN FALSE
    ELSE market_open <= t.time /\ t.time <= market_close

max_invest_ratio == <<8, 10>>

(* int() of a quotient: truncation towards zero *)
trunc(q) == IF q[1] >= 0 THEN q[1] \div q[2] ELSE -((-q[1]) \div q[2])

max(a, b) == IF a >= b THEN a ELSE b

(* self.max_invest_ratio and self.max_position_count are the last two      *)
(* arguments                                                               *)
calculate_position_size_NoRatio(stock_price, available_cash, invest_ratio, max_position_count) ==
    IF stock_price = 0
    THEN Raise("ZeroDivisionError")
    ELSE Return(max(trunc(<<available_cash,
                            max_position_count * stock_price>>), 0))

calculate_position_size_WholeCash(stock_price, available_cash, invest_ratio, max_position_count) ==
    IF stock_price = 0
    THEN Raise("ZeroDivisionError")
    ELSE Return(max(trunc(<<available_cash * invest_ratio[1],
                            invest_ratio[2] * stock_price>>), 0))

calculate_position_size(stock_price, available_cash, invest_ratio, max_position_count) ==
    IF stock_price = 0
    THEN Raise("ZeroDivisionError")
    ELSE Return(max(trunc(<<available_cash * invest_ratio[1],
                            invest_ratio[2] * max_position_count
                              * stock_price>>), 0))

(* the balance the broker answers with: one output1 entry per symbol *)
SymbolOrder == <<"A", "B">>

BalancePayload(b) ==
    [ output1 |-> [ i \in DOMAIN SymbolOrder |->
                      [ pdno |-> SymbolOrder[i],
                        hldg_qty |-> str(b.stocks[SymbolOrder[i]].hldg_qty),
                        pchs_avg_pric |->
                            str(b.stocks[SymbolOrder[i]].pchs_avg_pric) ] ],
      output2 |-> << [dnca_tot_amt |-> str(b.cash)] >> ]

get_balance(outcome, data) ==
    IF outcome \notin Responses THEN Raise(outcome)
    ELSE IF outcome = "200 rt_cd=0"
    THEN Return(<< [ cash |-> int(data.output2[1].dnca_tot_amt),
                     stocks |-> data.output1 ] >>)
    ELSE Return(None)

(* the holdings dict: one key per symbol, the value of its last entry, in   *)
(* the order of the first entries, which is the order items() visits       *)
portfolio_of(balance, held) ==
    LET codes == { held[i].pdno : i \in DOMAIN held }
        last(c) == CHOOSE i \in DOMAIN held :
                      /\ held[i].pdno = c
                      /\ \A j \in DOMAIN held : held[j].pdno = c => j <= i
        firsts == SelectSeq([i \in DOMAIN held |-> i],
                            LAMBDA i : \A j \in 1..(i - 1) :
                                          held[j].pdno /= held[i].pdno)
    IN  << [ cash |-> balance[1].cash,
             holdings |-> [ c \in codes |->
                              [ quantity |-> int(held[last(c)].hldg_qty),
                                buy_price |->
                                    int(held[last(c)].pchs_avg_pric) ] ],
             items |-> [ k \in DOMAIN firsts |-> held[firsts[k]].pdno ],
             position_count |-> Cardinality(codes) ] >>

(* every entry of the balance kept, the sold-out ones included *)
get_portfolio_status_KeepsAll(balance) ==
    IF balance = None THEN None
    ELSE portfolio_of(balance, balance[1].stocks)

get_portfolio_status(balance) ==
    IF balance = None THEN None
    ELSE portfolio_of(balance,
             SelectSeq(balance[1].stocks, LAMBDA e : int(e.hldg_qty) > 0))

(* except Exception of run_strategy: every exception a gateway call or a   *)
(* rule raises is an Exception; KeyboardInterrupt is a BaseException       *)
run_strategy_catches_RequestErrors(exc) ==
    exc \in TransportFailures \cup OtherErrors

run_strategy_catches(exc) == exc /= "KeyboardInterrupt"

(* after the OrderResult, execute_buy_order and execute_sell_order return  *)
(* on either branch: the order is not sent again                           *)
resubmits_OnFailure(res) == ~res.value

resubmits(res) == FALSE

(* What analyze_stock ends in: no quote (one request), no chart (two), or  *)
(* an Analysis (two); its own except clause turns every error into None.   *)
Bullish == [ current_price |-> 20, change_rate |-> <<-29, 10>>, ma5 |-> R(2),
             ma20 |-> R(1), rsi |-> R(50), volume_ratio |-> R(2) ]

Bearish == [ current_price |-> 19, change_rate |-> R(-5), ma5 |-> R(1),
             ma20 |-> R(2), rsi |-> R(30), volume_ratio |-> R(0) ]

Neutral == [ current_price |-> 20, change_rate |-> R(-3), ma5 |-> R(1),
             ma20 |-> None, rsi |-> None, volume_ratio |-> R(0) ]

AnalyzeOutcomes == {"no_quote", "no_chart", "bullish", "bearish", "neutral"}

QuoteAndChart == {"get_current_price", "get_chart_data"}

analyze_stock(out) ==
    CASE out = "no_quote" ->
            [analysis |-> None, calls |-> {"get_current_price"}]
      [] out = "no_chart" -> [analysis |-> None, calls |-> QuoteAndChart]
      [] out = "bullish" -> [analysis |-> <<Bullish>>, calls |-> QuoteAndChart]
      [] out = "bearish" -> [analysis |-> <<Bearish>>, calls |-> QuoteAndChart]
      [] OTHER -> [analysis |-> <<Neutral>>, calls |-> QuoteAndChart]

CycleOutcomes == {"200 rt_cd=0", "200 rt_cd=1", "500", "ConnectionError"}

MaxCycles == 2

MaxWatchlist == 2

PositionCounts == {1, 2}

Weekdays == 0..6

Times == {32399, 32400, 55800, 55801}

(* every instant the scheduler may enter the cycle at *)
FullClock == [weekday : Weekdays, time : Times]

(* a Monday 09:00:00 and a Sunday 09:00:00 *)
TradingClock == { [weekday |-> 0, time |-> 32400],
                  [weekday |-> 6, time |-> 32400] }

Watchlists ==
    UNION { [1..n -> Symbols] : n \in 0..MaxWatchlist }

Configs == [ watchlist : Watchlists, max_position_count : PositionCounts ]

(* the accounts: each symbol not held or held at an average price of 20,  *)
(* the first symbol also held at an average price of 0                     *)
Brokers ==
    { b \in [ cash : {0, 100},
              stocks : [ Symbols -> { [hldg_qty |-> 0, pchs_avg_pric |-> 0],
                                      [hldg_qty |-> 1, pchs_avg_pric |-> 0],
                                      [hldg_qty |-> 1, pchs_avg_pric |-> 20] } ] ] :
        \A c \in Symbols :
            (b.stocks[c].hldg_qty > 0 /\ b.stocks[c].pchs_avg_pric = 0)
                => c = SymbolOrder[1] }

(* the locals of run_strategy, execute_buy_order and execute_sell_order    *)
(* before they are bound                                                   *)
NoLocals ==
    /\ local' = None /\ cur_analysis' = None /\ buy_quantity' = 0
    /\ order_res' = None /\ posts' = 0

InitCycle ==
    /\ signal = None /\ request = None /\ order = None /\ calc = None
    /\ pc = "sched"
    /\ now = None
    /\ portfolio = None /\ local = None /\ todo = <<>> /\ idx = 0
    /\ cur_analysis = None /\ buy_quantity = 0 /\ order_res = None
    /\ calls = {} /\ posts = 0 /\ submitted = <<>> /\ reviews = {}
    /\ lines = <<>>
    /\ history = <<>>
    /\ bal_res = None
    /\ main = [run |-> 1, interrupted |-> FALSE]

(* the ways on from a step of the cycle: each sets pc, history, lines,     *)
(* todo and idx                                                            *)
Finish(how, endline) ==
    /\ pc' = "returned"
    /\ history' = Append(history, how)
    /\ lines' = IF endline THEN Append(lines, "end") ELSE lines
    /\ todo' = <<>>
    /\ idx' = 0

Propagate(exc) ==
    /\ pc' = "crashed"
    /\ history' = Append(history, exc)
    /\ UNCHANGED <<lines, todo, idx>>

OnException(exc) ==
    IF run_strategy_catches(exc) THEN Finish("error", TRUE) ELSE Propagate(exc)

ToBuyLoop(i) ==
    IF i > Len(config.watchlist)
    THEN Finish("completed", TRUE)
    ELSE /\ pc' = "buy" /\ idx' = i /\ todo' = <<>>
         /\ UNCHANGED <<history, lines>>

ToSellLoop(rest) ==
    IF rest = <<>>
    THEN ToBuyLoop(1)
    ELSE /\ pc' = "sell" /\ todo' = rest /\ idx' = 0
         /\ UNCHANGED <<history, lines>>

Stay(p) == pc' = p /\ UNCHANGED <<history, lines, todo, idx>>

(* schedule.run_pending() with the job due: run_strategy is entered and    *)
(* passes, or not, its market-hours gate                                   *)
Invoke ==
    /\ pc = "sched"
    /\ Len(history) < MaxCycles
    /\ \E t \in clock :
         /\ now' = t
         /\ IF ~is_market_open(t)
            THEN /\ pc' = "returned"
                 /\ history' = Append(history, "closed")
                 /\ lines' = <<>>
            ELSE /\ pc' = "portfolio"
                 /\ lines' = <<"start">>
                 /\ UNCHANGED history
    /\ calls' = {} /\ submitted' = <<>> /\ reviews' = {}
    /\ portfolio' = None /\ bal_res' = None /\ todo' = <<>> /\ idx' = 0
    /\ NoLocals
    /\ UNCHANGED <<signal, request, order, calc, main, clock, config, broker>>

(* run_strategy has returned: back in the loop of start_scheduler, at      *)
(* time.sleep(60)                                                          *)
BackToScheduler ==
    /\ pc = "returned"
    /\ pc' = "sched"
    /\ now' = None
    /\ calls' = {} /\ submitted' = <<>> /\ reviews' = {} /\ lines' = <<>>
    /\ portfolio' = None /\ bal_res' = None
    /\ UNCHANGED <<signal, request, order, calc, main, clock, config, broker, local, todo,
                   idx, cur_analysis, buy_quantity, order_res, posts, history>>

(* if not portfolio: the portfolio is None *)
portfolio_unavailable_Never(p) == FALSE

portfolio_unavailable(p) == p = None

(* portfolio = self.get_portfolio_status(), first statement of the try,    *)
(* to the first sell review; portfolio['cash'] of None is a TypeError       *)
FetchPortfolio ==
    /\ pc = "portfolio"
    /\ \E outcome \in CycleOutcomes :
         LET bal == get_balance(outcome, BalancePayload(broker))
         IN  /\ bal_res' = <<bal>>
             /\ IF bal.exc /= ""
                THEN OnException(bal.exc) /\ UNCHANGED portfolio
                ELSE LET p == get_portfolio_status(bal.value)
                     IN  /\ portfolio' = p
                         /\ IF portfolio_unavailable(p)
                            THEN Finish("no_portfolio", FALSE)
                            ELSE IF p = None
                            THEN OnException("TypeError")
                            ELSE ToSellLoop(p[1].items)
    /\ calls' = calls \cup {"get_balance"}
    /\ UNCHANGED <<signal, request, order, calc, main, clock, now, config,
                   broker, local, cur_analysis, buy_quantity, order_res, posts,
                   submitted, reviews>>

(* one pass of the loop over portfolio['holdings'].items(), up to the call *)
(* of execute_sell_order                                                   *)
SellReview ==
    /\ pc = "sell"
    /\ \E out \in AnalyzeOutcomes :
         LET stock_code == Head(todo)
             holding_info == <<portfolio[1].holdings[stock_code]>>
             a == analyze_stock(out)
             fires == IF a.analysis = None THEN Return(FALSE)
                      ELSE should_sell(a.analysis, holding_info)
         IN  /\ calls' = calls \cup a.calls
             /\ IF fires.exc /= ""
                THEN /\ OnException(fires.exc)
                     /\ cur_analysis' = None
                     /\ UNCHANGED reviews
                ELSE /\ reviews' = reviews \cup
                            {[ side |-> "sell", stock_code |-> stock_code,
                               fired |-> fires.value ]}
                     /\ IF fires.value
                        THEN Stay("sell_post") /\ cur_analysis' = a.analysis
                        ELSE ToSellLoop(Tail(todo)) /\ cur_analysis' = None
    /\ UNCHANGED <<signal, request, order, calc, main, bal_res, clock,
                   now, config, broker,
                   portfolio, local, buy_quantity, order_res, posts, submitted>>

(* the broker's books after an order it accepted, executed at the price of *)
(* the analysis                                                            *)
Executed(b, side, stock_code, qty, price) ==
    IF side = "sell"
    THEN [ cash |-> b.cash + qty * price,
           stocks |-> [b.stocks EXCEPT ![stock_code] =
                          [hldg_qty |-> 0, pchs_avg_pric |-> 0]] ]
    ELSE [ cash |-> b.cash - qty * price,
           stocks |-> [b.stocks EXCEPT ![stock_code] =
                          [hldg_qty |-> @.hldg_qty + qty,
                           pchs_avg_pric |-> price]] ]

(* execute_sell_order: quantity = holding_info['quantity'] *)
sell_quantity_AllButOne(holding_info) == holding_info.quantity - 1

sell_quantity(holding_info) == holding_info.quantity

(* execute_sell_order: self.api.sell_order(stock_code, quantity, price=0) *)
SellPost ==
    /\ pc = "sell_post"
    /\ \E outcome \in CycleOutcomes :
         LET stock_code == Head(todo)
             qty == sell_quantity(portfolio[1].holdings[stock_code])
             res == order_result(outcome)
         IN  /\ submitted' = Append(submitted,
                    [ side |-> "sell", stock_code |-> stock_code,
                      quantity |-> qty, price |-> 0,
                      request |-> sell_order(stock_code, qty, 0, "01") ])
             /\ order_res' = <<res>>
             /\ broker' = IF res.exc = "" /\ res.value
                          THEN Executed(broker, "sell", stock_code, qty,
                                        cur_analysis[1].current_price)
                          ELSE broker
    /\ posts' = posts + 1
    /\ calls' = calls \cup {"sell_order"}
    /\ Stay("sell_result")
    /\ UNCHANGED <<signal, request, order, calc, main, bal_res, clock,
                   now, config, portfolio,
                   local, cur_analysis, buy_quantity, reviews>>

(* execute_sell_order from the result (or the error, which its except      *)
(* clause catches) to its return, then time.sleep(1)                       *)
SellResult ==
    /\ pc = "sell_result"
    /\ IF order_res[1].exc = "" /\ resubmits(order_res[1])
       THEN /\ Stay("sell_post")
            /\ UNCHANGED <<local, cur_analysis, buy_quantity, order_res, posts>>
       ELSE ToSellLoop(Tail(todo)) /\ NoLocals
    /\ UNCHANGED <<signal, request, order, calc, main, bal_res, clock,
                   now, config, broker,
                   portfolio, calls, submitted, reviews>>

(* one pass of the loop over self.watchlist, up to the call of             *)
(* execute_buy_order                                                       *)
BuyReview ==
    /\ pc = "buy"
    /\ \E out \in AnalyzeOutcomes :
         LET a == analyze_stock(out)
             fires == a.analysis /= None /\ should_buy(a.analysis)
         IN  /\ calls' = calls \cup a.calls
             /\ reviews' = reviews \cup
                    {[ side |-> "buy", stock_code |-> config.watchlist[idx],
                       fired |-> fires ]}
             /\ IF fires
                THEN Stay("buy_portfolio") /\ cur_analysis' = a.analysis
                ELSE ToBuyLoop(idx + 1) /\ cur_analysis' = None
    /\ UNCHANGED <<signal, request, order, calc, main, bal_res, clock,
                   now, config, broker,
                   portfolio, local, buy_quantity, order_res, posts, submitted>>

(* execute_buy_order: if quantity <= 0 *)
quantity_insufficient_NegativeOnly(q) == q < 0

quantity_insufficient(q) == q <= 0

(* execute_buy_order: the two checks that end it before an order is sized, *)
(* on the portfolio it has just read                                       *)
buy_blocked_AboveLimit(stock_code, p, max_position_count) ==
    \/ stock_code \in DOMAIN p.holdings
    \/ p.position_count > max_position_count

buy_blocked_IgnoresCount(stock_code, p, max_position_count) ==
    stock_code \in DOMAIN p.holdings

buy_blocked(stock_code, p, max_position_count) ==
    \/ stock_code \in DOMAIN p.holdings
    \/ p.position_count >= max_position_count

(* execute_buy_order from its get_portfolio_status() to the order quantity *)
BuyPortfolio ==
    /\ pc = "buy_portfolio"
    /\ \E outcome \in CycleOutcomes :
         LET stock_code == config.watchlist[idx]
             bal == get_balance(outcome, BalancePayload(broker))
             p == IF bal.exc /= "" THEN None
                  ELSE get_portfolio_status(bal.value)
             size == calculate_position_size(
                         cur_analysis[1].current_price, p[1].cash,
                         max_invest_ratio, config.max_position_count)
         IN  IF \/ p = None
                \/ buy_blocked(stock_code, p[1], config.max_position_count)
                \/ size.exc /= ""
                \/ quantity_insufficient(size.value)
             THEN ToBuyLoop(idx + 1) /\ NoLocals
             ELSE /\ Stay("buy_post")
                  /\ local' = p
                  /\ buy_quantity' = size.value
                  /\ UNCHANGED <<cur_analysis, order_res, posts>>
    /\ calls' = calls \cup {"get_balance"}
    /\ UNCHANGED <<signal, request, order, calc, main, bal_res, clock,
                   now, config, broker,
                   portfolio, submitted, reviews>>

(* execute_buy_order: self.api.buy_order(stock_code, quantity, price=0) *)
BuyPost ==
    /\ pc = "buy_post"
    /\ \E outcome \in CycleOutcomes :
         LET stock_code == config.watchlist[idx]
             res == order_result(outcome)
         IN  /\ submitted' = Append(submitted,
                    [ side |-> "buy", stock_code |-> stock_code,
                      quantity |-> buy_quantity, price |-> 0,
                      request |-> buy_order(stock_code, buy_quantity, 0, "01") ])
             /\ order_res' = <<res>>
             /\ broker' = IF res.exc = "" /\ res.value
                          THEN Executed(broker, "buy", stock_code, buy_quantity,
                                        cur_analysis[1].current_price)
                          ELSE broker
    /\ posts' = posts + 1
    /\ calls' = calls \cup {"buy_order"}
    /\ Stay("buy_result")
    /\ UNCHANGED <<signal, request, order, calc, main, bal_res, clock,
                   now, config, portfolio,
                   local, cur_analysis, buy_quantity, reviews>>

(* execute_buy_order from the result (or the error, which its except       *)
(* clause catches) to its return, then time.sleep(1)                       *)
BuyResult ==
    /\ pc = "buy_result"
    /\ IF order_res[1].exc = "" /\ resubmits(order_res[1])
       THEN /\ Stay("buy_post")
            /\ UNCHANGED <<local, cur_analysis, buy_quantity, order_res, posts>>
       ELSE ToBuyLoop(idx + 1) /\ NoLocals
    /\ UNCHANGED <<signal, request, order, calc, main, bal_res, clock,
                   now, config, broker,
                   portfolio, calls, submitted, reviews>>

Next ==
    \/ Invoke
    \/ BackToScheduler
    \/ FetchPortfolio
    \/ SellReview
    \/ SellPost
    \/ SellResult
    \/ BuyReview
    \/ BuyPortfolio
    \/ BuyPost
    \/ BuyResult

(* trading: every configuration and every account, at two instants *)
Init ==
    /\ InitCycle
    /\ clock = TradingClock
    /\ config \in Configs
    /\ broker \in Brokers

Spec == Init /\ [][Next]_vars

(* the gate: every instant, with one configuration and one account *)
InitGate ==
    /\ InitCycle
    /\ clock = FullClock
    /\ config = [watchlist |-> <<"A", "B">>, max_position_count |-> 2]
    /\ broker = [ cash |-> 100,
                  stocks |-> [ s \in Symbols |->
                                 IF s = "A"
                                 THEN [hldg_qty |-> 1, pchs_avg_pric |-> 20]
                                 ELSE [hldg_qty |-> 0, pchs_avg_pric |-> 0] ] ]

SpecGate == InitGate /\ [][Next]_vars

(* main(): except KeyboardInterrupt, then except Exception *)
main_catches(exc) == exc = "KeyboardInterrupt" \/ run_strategy_catches(exc)

(* where start_scheduler is when the interrupt arrives: asleep or between  *)
(* jobs, or inside the try of run_strategy                                 *)
InScheduler == {"sched", "returned"}

InCycle == { "portfolio", "sell", "sell_post", "sell_result", "buy",
             "buy_portfolio", "buy_post", "buy_result" }

(* a KeyboardInterrupt raised at the statement being executed: it passes   *)
(* every except Exception on its way, start_scheduler has no handler, and  *)
(* main's except KeyboardInterrupt prints and lets main return             *)
Interrupt ==
    /\ pc \in InScheduler \cup InCycle
    /\ main' = [main EXCEPT !.interrupted = TRUE]
    /\ IF pc \in InCycle /\ run_strategy_catches("KeyboardInterrupt")
       THEN Finish("error", TRUE)
       ELSE /\ pc' = IF main_catches("KeyboardInterrupt")
                     THEN "main_returned" ELSE "traceback"
            /\ UNCHANGED <<history, lines, todo, idx>>
    /\ UNCHANGED <<signal, request, order, calc, clock, now, config, broker,
                   portfolio, local, cur_analysis, buy_quantity, order_res,
                   calls, posts, submitted, reviews, bal_res>>

(* the modes of the prompt of main() *)
Choices == {"1", "2", "3", "4"}

(* the module after its first main() has returned: the second              *)
(* if __name__ == "__main__" block prints the usage and calls main()       *)
(* again, which builds a new strategy and asks for the mode                *)
SecondMain ==
    /\ pc = "main_returned"
    /\ main.run = 1
    /\ main' = [main EXCEPT !.run = 2]
    /\ \E choice \in Choices :
         pc' = IF choice = "2" THEN "sched" ELSE "main_returned"
    /\ history' = <<>> /\ lines' = <<>>
    /\ now' = None
    /\ calls' = {} /\ submitted' = <<>> /\ reviews' = {}
    /\ portfolio' = None /\ bal_res' = None /\ todo' = <<>> /\ idx' = 0
    /\ NoLocals
    /\ UNCHANGED <<signal, request, order, calc, clock, config, broker>>

(* the end of the module: the process exits *)
Exit ==
    /\ pc = "main_returned"
    /\ main.run = 2
    /\ pc' = "exit"
    /\ UNCHANGED <<signal, request, order, calc, main, clock, now, config,
                   broker, portfolio, local, todo, idx, cur_analysis,
                   buy_quantity, order_res, calls, posts, submitted, reviews,
                   lines, history, bal_res>>

NextMain ==
    \/ Next
    \/ Interrupt
    \/ SecondMain
    \/ Exit

(* python main.py with mode 2 chosen: one configuration and one account *)
InitMain ==
    /\ InitCycle
    /\ clock = TradingClock
    /\ config = [watchlist |-> <<"A", "B">>, max_position_count |-> 2]
    /\ broker = [ cash |-> 100,
                  stocks |-> [ s \in Symbols |->
                                 IF s = "A"
                                 THEN [hldg_qty |-> 1, pchs_avg_pric |-> 20]
                                 ELSE [hldg_qty |-> 0, pchs_avg_pric |-> 0] ] ]

SpecMain == InitMain /\ [][NextMain]_vars

----------------------------------------------------------------------------
(* Claims on the strategy cycle *)

(* C3: an invocation of execute_buy_order or execute_sell_order sends at   *)
(* most one order request: once the request has been answered (accepted,   *)
(* rejected, non-200) or has failed, the order is not sent again.          *)
C3_OrderSentOnce ==
    /\ posts <= 1
    /\ pc \in {"sell_result", "buy_result"} => posts = 1

(* a sell rejected by the broker, sent once *)
C3_Witness ==
    /\ pc = "sell_result"
    /\ order_res[1].exc = ""
    /\ ~order_res[1].value
    /\ posts = 1
    /\ Len(submitted) = 1

MarketHours(t) ==
    /\ t.weekday \in 0..4
    /\ 9 * 3600 <= t.time
    /\ t.time <= 15 * 3600 + 30 * 60

(* C9: run_strategy makes gateway calls only when it is entered on a       *)
(* weekday at a time in [09:00, 15:30]; entered at any other time it makes *)
(* no call, submits no order and returns.                                  *)
C9_NoCallsOutsideMarketHours ==
    /\ pc /= "crashed"
    /\ (calls /= {} \/ submitted /= <<>> \/ pc \notin {"sched", "returned"})
         => (now /= None /\ MarketHours(now))
    /\ (now /= None /\ ~MarketHours(now))
         => ( /\ pc = "returned"
              /\ calls = {}
              /\ submitted = <<>>
              /\ history[Len(history)] = "closed" )

(* entered on a Saturday at 09:00: returned with no call made *)
C9_Witness ==
    /\ pc = "returned"
    /\ now = [weekday |-> 5, time |-> 32400]
    /\ calls = {}
    /\ submitted = <<>>

(* C10: whatever the gateway calls and the rules of a cycle end in, an     *)
(* exception included, run_strategy returns to the scheduler, which can    *)
(* then enter a later cycle.                                               *)
C10_CycleReturnsNormally ==
    /\ pc /= "crashed"
    /\ \A i \in DOMAIN history :
         history[i] \in {"closed", "no_portfolio", "error", "completed"}
    /\ (pc = "sched" /\ Len(history) < MaxCycles) => ENABLED Invoke

(* a cycle under way after a cycle that ended in a caught exception *)
C10_Witness ==
    /\ history = <<"error">>
    /\ pc = "sell"
    /\ "get_balance" \in calls

(* the symbols a review of the given side has been completed for *)
Reviewed(side) == { r.stock_code : r \in { x \in reviews : x.side = side } }

(* C11: an error raised while one symbol is processed (here by the sell    *)
(* rule) leaves the cycle running: when run_strategy returns after it has  *)
(* read the portfolio, every held symbol but the one the error was raised  *)
(* for has been evaluated for sell, and every watchlist symbol for buy.    *)
C11_ErrorIsolatedToSymbol ==
    (pc = "returned" /\ portfolio /= None)
        => /\ Cardinality(DOMAIN portfolio[1].holdings \ Reviewed("sell"))
                 <= IF history[Len(history)] = "error" THEN 1 ELSE 0
           /\ \A i \in DOMAIN config.watchlist :
                 config.watchlist[i] \in Reviewed("buy")

(* the sell orders submitted in this cycle for a symbol *)
SellsOf(c) ==
    { i \in DOMAIN submitted :
        submitted[i].side = "sell" /\ submitted[i].stock_code = c }

(* a market order for the quantity q of the symbol c *)
MarketOrderFor(o, c, q) ==
    /\ o.stock_code = c
    /\ o.quantity = q
    /\ o.price = 0
    /\ o.request.data.PDNO = c
    /\ o.request.data.ORD_DVSN = "01"
    /\ o.request.data.ORD_QTY = str(q)
    /\ o.request.data.ORD_UNPR = str(0)

(* C12: in a cycle inside market hours, once execute_sell_order has made   *)
(* its request for a held symbol whose sell rule fired, exactly one sell   *)
(* order has been submitted for it, a market order (price 0) for the full  *)
(* held quantity; a sell order is submitted only for a symbol held in the  *)
(* portfolio read at the start of the cycle whose sell rule fired.         *)
C12_SellFullQuantityAtMarket ==
    portfolio /= None =>
        /\ \A r \in reviews :
             (r.side = "sell" /\ r.fired
                 /\ ~(pc = "sell_post" /\ Head(todo) = r.stock_code))
             => /\ Cardinality(SellsOf(r.stock_code)) = 1
                /\ \A i \in SellsOf(r.stock_code) :
                      MarketOrderFor(submitted[i], r.stock_code,
                          portfolio[1].holdings[r.stock_code].quantity)
        /\ \A i \in DOMAIN submitted :
             submitted[i].side = "sell"
             => /\ submitted[i].stock_code \in DOMAIN portfolio[1].holdings
                /\ [ side |-> "sell", stock_code |-> submitted[i].stock_code,
                      fired |-> TRUE ] \in reviews
                /\ [ side |-> "sell", stock_code |-> submitted[i].stock_code,
                      fired |-> FALSE ] \notin reviews

(* two holdings reviewed: one sold, a holding of more than one share, and  *)
(* one kept                                                                *)
C12_Witness ==
    /\ pc = "returned"
    /\ Len(submitted) = 1
    /\ submitted[1].side = "sell"
    /\ submitted[1].quantity > 1
    /\ \E r \in reviews : r.side = "sell" /\ ~r.fired

(* C13: when execute_buy_order submits a buy order, the symbol is a        *)
(* watchlist symbol whose buy rule fired, it is not among the holdings of  *)
(* the portfolio read last before the submission, and the position_count   *)
(* of that portfolio is below max_position_count.                          *)
C13_BuyOnlyWhenAllowed ==
    /\ pc \in {"buy_post", "buy_result"}
         => /\ local /= None
            /\ config.watchlist[idx] \notin DOMAIN local[1].holdings
            /\ local[1].position_count < config.max_position_count
            /\ cur_analysis /= None
            /\ should_buy(cur_analysis)
    /\ pc = "buy_result"
         => /\ submitted[Len(submitted)].side = "buy"
            /\ submitted[Len(submitted)].stock_code = config.watchlist[idx]
    /\ \A i \in DOMAIN submitted :
         submitted[i].side = "buy"
         => /\ \E j \in DOMAIN config.watchlist :
                  config.watchlist[j] = submitted[i].stock_code
            /\ [ side |-> "buy", stock_code |-> submitted[i].stock_code,
                  fired |-> TRUE ] \in reviews

(* a buy submitted while another symbol is held and one position is free *)
C13_Witness ==
    /\ pc = "buy_result"
    /\ local[1].position_count = 1
    /\ config.max_position_count = 2
    /\ submitted[Len(submitted)].side = "buy"

(* C22: a keyboard interrupt that arrives while the scheduler is running,  *)
(* asleep or inside a cycle, is caught by main (nothing is raised past     *)
(* main) and ends the program: once it has arrived no cycle is entered or  *)
(* continued and the scheduler is not started again.                       *)
C22_InterruptTerminates ==
    /\ pc /= "traceback"
    /\ main.interrupted => pc \in {"main_returned", "exit"}

(* C23: in a cycle inside market hours whose first get_balance returned    *)
(* None, run_strategy has returned through its portfolio check with        *)
(* get_balance the only gateway call made: no symbol reviewed, no price or *)
(* chart request, no order.                                                *)
C23_NoPortfolioEndsCycle ==
    (bal_res /= None /\ bal_res[1] = Return(None))
        => /\ pc = "returned"
           /\ history[Len(history)] = "no_portfolio"
           /\ calls = {"get_balance"}
           /\ reviews = {}
           /\ submitted = <<>>
           /\ portfolio = None

(* a cycle entered on Monday 09:00 that ended on a null balance *)
C23_Witness ==
    /\ pc = "returned"
    /\ now /= None /\ MarketHours(now)
    /\ bal_res = <<Return(None)>>
    /\ calls = {"get_balance"}

(* C24: when run_strategy has returned from a cycle that logged the start  *)
(* line, it has logged the end line, whichever way the cycle ended.        *)
C24_StartLineHasEndLine ==
    (pc = "returned" /\ lines /= <<>> /\ lines[1] = "start")
        => lines[Len(lines)] = "end"

(* C25: every order submitted in a cycle is a market order (price 0, order *)
(* division "01") with an integer quantity of at least 1; a sell carries   *)
(* the quantity of the holding it was read from.                           *)
C25_OrdersAreMarketPositive ==
    \A i \in DOMAIN submitted :
        LET o == submitted[i]
        IN  /\ o.quantity \in Nat \ {0}
            /\ MarketOrderFor(o, o.stock_code, o.quantity)
            /\ o.side = "sell"
                 => /\ o.stock_code \in DOMAIN portfolio[1].holdings
                    /\ o.quantity
                         = portfolio[1].holdings[o.stock_code].quantity

(* a cycle that has submitted a sell and then a buy *)
C25_Witness ==
    /\ pc = "buy_result"
    /\ \E i, j \in DOMAIN submitted :
         /\ submitted[i].side = "sell"
         /\ submitted[j].side = "buy"
         /\ submitted[j].quantity = 4

(* the number of symbols the account holds *)
HeldSymbols(b) == Cardinality({ c \in Symbols : b.stocks[c].hldg_qty > 0 })

(* C26: with a broker that books every accepted order before the next     *)
(* balance, no step takes the number of held symbols from at most          *)
(* max_position_count to above it.                                         *)
C26_PositionCountBounded ==
    [][ HeldSymbols(broker) <= config.max_position_count
          => HeldSymbols(broker') <= config.max_position_count ]_vars

(* an accepted buy that filled the last free position *)
C26_Witness ==
    /\ pc = "buy_result"
    /\ order_res[1].exc = "" /\ order_res[1].value
    /\ local[1].position_count + 1 = config.max_position_count
    /\ HeldSymbols(broker) = config.max_position_count

(* C27: for the buy order just submitted, with the cash of the portfolio   *)
(* read for it and the price of the Analysis it was sized with,            *)
(* quantity * current_price <= cash * max_invest_ratio / max_position_count *)
(* <= cash.                                                                *)
C27_BuyWithinCash ==
    pc = "buy_result" =>
        LET o == submitted[Len(submitted)]
            cash == local[1].cash
            price == cur_analysis[1].current_price
        IN  /\ o.side = "buy"
            /\ o.quantity * price * max_invest_ratio[2]
                    * config.max_position_count
                 <= cash * max_invest_ratio[1]
            /\ cash * max_invest_ratio[1]
                 <= cash * max_invest_ratio[2] * config.max_position_count
            /\ o.quantity * price <= cash

(* a buy of 2 shares at 20 with 100 in cash and two positions allowed *)
C27_Witness ==
    /\ pc = "buy_result"
    /\ submitted[Len(submitted)].quantity = 2
    /\ local[1].cash = 100
    /\ cur_analysis[1].current_price = 20
    /\ config.max_position_count = 2

----------------------------------------------------------------------------
(* The calculations of the strategy and the conversions of the gateway,    *)
(* each applied once to an input drawn from a bounded set.                 *)

MaxSizePrice == 3

MaxSizeCash == 8

MaxCount == 5

(* ratios whose float products with the cash below are exact: one half,    *)
(* the configured 0.8 (strategy.py:22, main.py:33) and one                 *)
Ratios == { <<1, 2>>, max_invest_ratio, <<1, 1>> }

SizeInputs ==
    [ pc : {"input"}, op : {"calculate_position_size"},
      stock_price : 0..MaxSizePrice \cup {50000},
      available_cash : 0..MaxSizeCash \cup {1000000},
      invest_ratio : Ratios,
      max_position_count : 1..MaxCount,
      result : {None} ]

CallCalculatePositionSize ==
    /\ calc.pc = "input"
    /\ calc.op = "calculate_position_size"
    /\ calc' = [calc EXCEPT
                  !.pc = "done",
                  !.result = calculate_position_size(
                                 calc.stock_price, calc.available_cash,
                                 calc.invest_ratio, calc.max_position_count)]
    /\ UNCHANGED <<signal, request, order, cycleVars>>

MaxRows == 2

(* the rows of a balance: a symbol, which may occur twice, a quantity held *)
(* and an average price; the deposit the broker reports is not negative    *)
Rows == [ pdno : Symbols, qty : {0, 1, 10}, price : {0, 20} ]

(* the body the broker answers with *)
BalanceBody(rows, cash) ==
    [ output1 |-> [ i \in DOMAIN rows |->
                      [ pdno |-> rows[i].pdno,
                        hldg_qty |-> str(rows[i].qty),
                        pchs_avg_pric |-> str(rows[i].price) ] ],
      output2 |-> << [dnca_tot_amt |-> str(cash)] >> ]

PortfolioInputs ==
    [ pc : {"input"}, op : {"get_portfolio_status"},
      outcome : Responses,
      rows : UNION { [1..n -> Rows] : n \in 0..MaxRows },
      cash : {0, 100},
      result : {None} ]

CallGetPortfolioStatus ==
    /\ calc.pc = "input"
    /\ calc.op = "get_portfolio_status"
    /\ calc' = [calc EXCEPT
                  !.pc = "done",
                  !.result = get_portfolio_status(
                                 get_balance(calc.outcome,
                                     BalanceBody(calc.rows, calc.cash)).value)]
    /\ UNCHANGED <<signal, request, order, cycleVars>>

(* sum(xs) over a list of numbers *)
RECURSIVE SumSeq(_)
SumSeq(xs) == IF xs = <<>> THEN 0 ELSE Head(xs) + SumSeq(Tail(xs))

(* xs[-n:] *)
last_n(xs, n) ==
    IF n = 0 THEN xs
    ELSE SubSeq(xs, max(Len(xs) - n, 0) + 1, Len(xs))

(* xs[:n], for n >= 0 *)
first_n(xs, n) == SubSeq(xs, 1, IF n < Len(xs) THEN n ELSE Len(xs))

(* a / b of two numbers, b /= 0, with a positive denominator *)
Div(a, b) ==
    IF a[2] * b[1] < 0 THEN <<-(a[1] * b[2]), -(a[2] * b[1])>>
    ELSE <<a[1] * b[2], a[2] * b[1]>>

Add(a, b) == <<a[1] * b[2] + b[1] * a[2], a[2] * b[2]>>

Sub(a, b) == <<a[1] * b[2] - b[1] * a[2], a[2] * b[2]>>

(* the mean of the first `period` prices *)
calculate_moving_average_OldestBars(prices, period) ==
    IF Len(prices) >= period
    THEN <<SumSeq(first_n(prices, period)), period>>
    ELSE None

calculate_moving_average(prices, period) ==
    IF Len(prices) >= period
    THEN <<SumSeq(last_n(prices, period)), period>>
    ELSE None

(* gains[-period:] and losses[-period:] *)
rsi_window_AllDeltas(xs, period) == xs

rsi_window(xs, period) == last_n(xs, period)

(* [-delta if delta < 0 else 0 for delta in deltas] *)
losses_of_Signed(deltas) ==
    [ i \in DOMAIN deltas |-> IF deltas[i] < 0 THEN deltas[i] ELSE 0 ]

losses_of(deltas) ==
    [ i \in DOMAIN deltas |-> IF deltas[i] < 0 THEN -deltas[i] ELSE 0 ]

calculate_rsi(prices, period) ==
    IF Len(prices) < period + 1 THEN None
    ELSE LET deltas == [ i \in 1..(Len(prices) - 1) |->
                           prices[i + 1] - prices[i] ]
             gains == [ i \in DOMAIN deltas |->
                          IF deltas[i] > 0 THEN deltas[i] ELSE 0 ]
             losses == losses_of(deltas)
             avg_gain == <<SumSeq(rsi_window(gains, period)), period>>
             avg_loss == <<SumSeq(rsi_window(losses, period)), period>>
         IN  IF avg_loss[1] = 0 THEN R(100)
             ELSE LET rs == Div(avg_gain, avg_loss)
                  IN  Sub(R(100), Div(R(100), Add(R(1), rs)))

MaxCloses == 4

MaxClose == 3

MaxPeriod == 3

CloseSeqs == UNION { [1..n -> 1..MaxClose] : n \in 0..MaxCloses }

IndicatorInputs ==
    [ pc : {"input"},
      op : {"calculate_moving_average", "calculate_rsi"},
      prices : CloseSeqs,
      period : 1..MaxPeriod,
      result : {None} ]

CallCalculateMovingAverage ==
    /\ calc.pc = "input"
    /\ calc.op = "calculate_moving_average"
    /\ calc' = [calc EXCEPT
                  !.pc = "done",
                  !.result = calculate_moving_average(calc.prices, calc.period)]
    /\ UNCHANGED <<signal, request, order, cycleVars>>

CallCalculateRsi ==
    /\ calc.pc = "input"
    /\ calc.op = "calculate_rsi"
    /\ calc' = [calc EXCEPT
                  !.pc = "done",
                  !.result = calculate_rsi(calc.prices, calc.period)]
    /\ UNCHANGED <<signal, request, order, cycleVars>>

(* analyze_stock from the quote and the chart it has fetched, both there,  *)
(* to the Analysis                                                         *)
analysis_of(stock_code, current_info, chart_data) ==
    LET closes == [ i \in DOMAIN chart_data |-> chart_data[i].close ]
        volumes == [ i \in DOMAIN chart_data |-> chart_data[i].volume ]
        ma5 == calculate_moving_average(closes, 5)
        ma20 == calculate_moving_average(closes, 20)
        rsi == calculate_rsi(closes, 14)
        avg_volume == <<SumSeq(last_n(volumes, 5)), 5>>
    IN  [ stock_code |-> stock_code,
          current_price |-> current_info.current_price,
          change_rate |-> current_info.change_rate,
          volume |-> current_info.volume,
          avg_volume |-> avg_volume,
          ma5 |-> ma5,
          ma20 |-> ma20,
          rsi |-> rsi,
          volume_ratio |-> IF Gt(avg_volume, R(0))
                           THEN Div(R(current_info.volume), avg_volume)
                           ELSE R(0) ]

MaxBars == 6

(* the charts: one to MaxBars bars, each with no volume or a volume of 5 *)
Charts ==
    UNION { [1..n -> [close : {1}, volume : {0, 5}]] : n \in 1..MaxBars }

AnalysisInputs ==
    [ pc : {"input"}, op : {"analyze_stock"},
      current_info : [ current_price : {20}, change_rate : {R(0)},
                       volume : {0, 10} ],
      chart_data : Charts,
      result : {None} ]

CallAnalyzeStock ==
    /\ calc.pc = "input"
    /\ calc.op = "analyze_stock"
    /\ calc' = [calc EXCEPT
                  !.pc = "done",
                  !.result = analysis_of("A", calc.current_info,
                                         calc.chart_data)]
    /\ UNCHANGED <<signal, request, order, cycleVars>>

(* get_chart_data of api.py on the answer to its request; a date stands    *)
(* for the stck_bsop_date of a bar, a later day a larger number            *)
get_chart_data(outcome, data, count) ==
    IF outcome \notin Responses THEN Raise(outcome)
    ELSE IF outcome = "200 rt_cd=0"
    THEN LET items == first_n(data.output2, count)
         IN  Return([ i \in DOMAIN items |->
                        [ date |-> items[i].stck_bsop_date,
                          close |-> int(items[i].stck_clpr),
                          volume |-> int(items[i].acml_vol) ] ])
    ELSE Return(None)

MaxDays == 3

MaxChartCount == 3

(* the bodies of a chart answer: bars of different days in any order, the  *)
(* close of day d being 10 + d                                             *)
ChartBodies ==
    { [ output2 |-> [ i \in DOMAIN days |->
                        [ stck_bsop_date |-> days[i],
                          stck_clpr |-> str(10 + days[i]),
                          acml_vol |-> str(1) ] ] ] :
        days \in { q \in UNION { [1..n -> 1..MaxDays] : n \in 0..MaxDays } :
                     \A i, j \in DOMAIN q : i /= j => q[i] /= q[j] } }

ChartInputs ==
    [ pc : {"input"}, op : {"get_chart_data"},
      outcome : Responses,
      data : ChartBodies,
      count : 0..MaxChartCount,
      result : {None} ]

CallGetChartData ==
    /\ calc.pc = "input"
    /\ calc.op = "get_chart_data"
    /\ calc' = [calc EXCEPT
                  !.pc = "done",
                  !.result = get_chart_data(calc.outcome, calc.data,
                                            calc.count)]
    /\ UNCHANGED <<signal, request, order, cycleVars>>

CalcInputs ==
    SizeInputs \cup PortfolioInputs \cup IndicatorInputs
        \cup AnalysisInputs \cup ChartInputs

NextCalc ==
    \/ CallCalculatePositionSize
    \/ CallGetPortfolioStatus
    \/ CallCalculateMovingAverage
    \/ CallCalculateRsi
    \/ CallAnalyzeStock
    \/ CallGetChartData

InitCalc ==
    /\ calc \in CalcInputs
    /\ signal = None /\ request = None /\ order = None
    /\ CycleOff

SpecCalc == InitCalc /\ [][NextCalc]_vars

----------------------------------------------------------------------------
(* Claims on the calculations *)

Done(op) == calc.pc = "done" /\ calc.op = op

RECURSIVE SumOver(_, _)
SumOver(f, S) ==
    IF S = {} THEN 0
    ELSE LET i == CHOOSE j \in S : TRUE IN f[i] + SumOver(f, S \ {i})

(* C16: calculate_moving_average returns None when there are fewer closes  *)
(* than the period (>= 1), and otherwise the arithmetic mean of the last   *)
(* `period` closes.                                                        *)
C16_MovingAverage ==
    Done("calculate_moving_average")
    => LET prices == calc.prices
           period == calc.period
           n == Len(prices)
       IN  IF n < period THEN calc.result = None
           ELSE /\ calc.result /= None
                /\ calc.result[2] > 0
                /\ calc.result[1] * period =
                       SumOver(prices, (n - period + 1)..n) * calc.result[2]

(* more closes than the period, the oldest one the largest *)
C16_Witness ==
    /\ Done("calculate_moving_average")
    /\ calc.prices = <<3, 1, 2>>
    /\ calc.period = 2
    /\ calc.result = <<3, 2>>

(* the gains and the losses of the last `period` deltas, summed *)
WindowGain(prices, period) ==
    LET n == Len(prices)
    IN  SumOver([ i \in (n - period)..(n - 1) |->
                    IF prices[i + 1] > prices[i]
                    THEN prices[i + 1] - prices[i] ELSE 0 ],
                (n - period)..(n - 1))

WindowLoss(prices, period) ==
    LET n == Len(prices)
    IN  SumOver([ i \in (n - period)..(n - 1) |->
                    IF prices[i + 1] < prices[i]
                    THEN prices[i] - prices[i + 1] ELSE 0 ],
                (n - period)..(n - 1))

(* C17: calculate_rsi returns None when there are fewer than period + 1    *)
(* closes; exactly 100 when the last `period` deltas hold no loss; and     *)
(* otherwise 100 - 100 / (1 + avgGain / avgLoss) over the last `period`    *)
(* deltas, which is 100 * gain / (gain + loss).                            *)
C17_Rsi ==
    Done("calculate_rsi")
    => LET prices == calc.prices
           period == calc.period
       IN  IF Len(prices) < period + 1 THEN calc.result = None
           ELSE LET G == WindowGain(prices, period)
                    L == WindowLoss(prices, period)
                IN  IF L = 0 THEN calc.result = R(100)
                    ELSE /\ calc.result /= None
                         /\ calc.result[2] > 0
                         /\ calc.result[1] * (G + L)
                               = 100 * G * calc.result[2]

(* a loss before the window, none in it: 100 *)
C17_Witness ==
    /\ Done("calculate_rsi")
    /\ calc.prices = <<3, 1, 2>>
    /\ calc.period = 1
    /\ calc.result = R(100)

(* C18: on at least period + 1 closes, the value calculate_rsi returns     *)
(* lies in [0, 100].                                                       *)
C18_RsiInRange ==
    (Done("calculate_rsi") /\ Len(calc.prices) >= calc.period + 1)
    => /\ calc.result /= None
       /\ calc.result[2] > 0
       /\ Ge(calc.result, R(0))
       /\ Le(calc.result, R(100))

(* only losses in the window: 0, the lower end *)
C18_Witness ==
    /\ Done("calculate_rsi")
    /\ calc.prices = <<1, 3, 2, 1>>
    /\ calc.period = 2
    /\ calc.result /= None
    /\ calc.result[1] = 0

(* C19: the avg_volume of the Analysis is the arithmetic mean of the       *)
(* volumes of the last 5 bars of the chart, or of all its bars when it has *)
(* fewer than 5, and the volume_ratio is the volume of the quote divided   *)
(* by that mean, or 0 when the mean is 0.                                  *)
C19_VolumeRatio ==
    Done("analyze_stock")
    => LET chart == calc.chart_data
           n == Len(chart)
           used == IF n < 5 THEN 1..n ELSE (n - 4)..n
           total == SumOver([ i \in used |-> chart[i].volume ], used)
           mean == <<total, Cardinality(used)>>
           a == calc.result
       IN  /\ a.avg_volume[1] * mean[2] = mean[1] * a.avg_volume[2]
           /\ IF total = 0 THEN a.volume_ratio[1] = 0
              ELSE a.volume_ratio[1] * total
                     = calc.current_info.volume * Cardinality(used)
                         * a.volume_ratio[2]

(* C20: get_chart_data returns at most `count` bars, the most recent       *)
(* `count` bars of the answer (all of them when there are fewer), oldest   *)
(* first.                                                                  *)
C20_ChartMostRecentAscending ==
    (Done("get_chart_data") /\ calc.outcome = "200 rt_cd=0")
    => LET bars == calc.result.value
           items == calc.data.output2
           days == { items[i].stck_bsop_date : i \in DOMAIN items }
           k == IF calc.count < Len(items) THEN calc.count ELSE Len(items)
           recent == { d \in days :
                         Cardinality({ e \in days : e > d }) < k }
       IN  /\ calc.result.exc = ""
           /\ Len(bars) <= calc.count
           /\ { bars[i].date : i \in DOMAIN bars } = recent
           /\ \A i, j \in DOMAIN bars : i < j => bars[i].date < bars[j].date

(* C21: when get_current_price has ended, of either module: an answer 200  *)
(* with rt_cd other than "0" was its only request after the transport      *)
(* failures retried, and it returned None; and when its request ended in a *)
(* transport failure it returned None as well, and raised nothing.         *)
C21_PriceFailureIsNull ==
    (request.op = "get_current_price" /\ Ended(request))
    => /\ request.ret /= None
       /\ \A i \in DOMAIN request.log :
             request.log[i] = "200 rt_cd=1"
             => /\ i = Len(request.log)
                /\ request.ret[1] = Return(None)
       /\ request.log[Len(request.log)] \in TransportFailures
             => request.ret[1] = Return(None)

====
